---- MODULE Spec2Model ----
(***************************************************************************)
(* aspartam: an in-process actor runtime.  One actor (its mailbox, its     *)
(* strong/weak handles, its run loop) and a small set of client tasks that *)
(* hold handles and send messages.                                         *)
(*                                                                         *)
(* src/src/lib.rs holds the mailbox, the handle pair, Addr::send, the      *)
(* envelope and the run loop.  ctx.stop(), the stopping hook, do_send and  *)
(* try_send, ctx.state() and supervision are used by src/src/tests.rs but  *)
(* are not defined in lib.rs; those parts follow spec.md (sections 4.4 to  *)
(* 4.6).                                                                   *)
(***************************************************************************)
EXTENDS Naturals, Sequences, FiniteSets

\* Bound: the number of envelopes ever created (oneshot channels opened).
MaxMsgs == 3

\* Bound: the number of runs of the restarting hook that are followed.
MaxRestarts == 3

\* Bound: the number of items of the stream handed to add_stream.
StreamLen == 2

\* The client tasks that may hold handles to the actor.
Clients == {"c1", "c2"}

\* The clients that keep WeakAddr values (a weak handle behaves the same
\* whoever keeps it).
WeakHolders == {"c2"}

\* The forwarding task add_stream spawns; it owns an Addr like a client.
Forwarder == "fw"

Tasks == Clients \cup {Forwarder}

\* Message kinds: "probe" has a plain handler, the handler of "stop" calls
\* ctx.stop() (tests.rs DummyResult::RecoverableError / StopProcessing, Kill).
Kinds == {"probe", "stop"}

\* Two more kinds occur with streams (tests.rs handling_streams): the
\* handler of "adopt" (As<S>) hands the stream it carries to ctx.add_stream,
\* and "item" is an item of that stream (Ping), sent by the forwarding task.

\* The stopping hook the actor was built with:
\*   "Stop"     the default hook (verdict Stop),
\*   "Continue" a hook whose verdict is always Continue,
\*   "Mint"     tests.rs:512-521, the first call mints a handle with
\*              ctx.address() and answers Continue, later calls answer Stop.
Policies == {"Stop", "Continue", "Mint"}

\* The stopping hook of an actor spawned with create_supervised that does not
\* override stopping: run restarting(), answer Continue.
Supervised == "Supervised"

\* The messages of the counter actor (data_sanity, Incrementor): the u32
\* values 2 and 7, and the query GetRequestCount.
U32Kinds == {"u32:2", "u32:7"}

CounterKinds == U32Kinds \cup {"count"}

\* Envelope ids: MaxMsgs sent by clients, StreamLen by the forwarding task.
MsgIds == 1..(MaxMsgs + StreamLen)

VARIABLES
    policy,     \* the stopping hook of the actor instance
    holds,      \* holds[c]: client c owns an Addr (one Arc strong reference)
    weak,       \* weak[c]: client c owns a WeakAddr
    mqAlive,    \* the MessageQueue inside the Arc (and its mpsc sender) exists
    rxAlive,    \* the run loop still owns the mpsc receiver msg_rx
    queue,      \* the envelopes in the mpsc channel, oldest first
    chan,       \* chan[i]: state of the oneshot reply channel of envelope i
    nextId,     \* id of the next envelope to be created
    pc,         \* position of the run loop task ("panic_reply" and
                \* "panic_address": the task died of that panic)
    cur,        \* the envelope the run loop pulled and is handling (or NoEnv)
    stopFlag,   \* ctx.stop() was requested and not yet answered
    minted,     \* the Mint hook has used its newaddr_tx
    handled,    \* the envelopes whose handler ran, in order
    sentBy,     \* sentBy[c]: ids client c enqueued, in order
    nStopped,   \* number of runs of the stopped hook
    cpc,        \* cpc[c]: "idle", "waiting" (inside send().await), "panicked"
    cwait,      \* cwait[c]: the envelope whose reply c awaits (0 if none)
    step,       \* the client call that returned in this step, and its result
    nRestarts,  \* number of runs of the restarting hook (restart_count)
    stream,     \* items the forwarding task has not yet pulled from its stream
    count,      \* request_count of the counter actor
    reply,      \* reply[i]: the value sent on the reply channel of envelope i
    state,      \* the lifecycle state ctx.state() reports
    nStarted,   \* number of runs of the started hook
    secHeld,    \* the actor instance owns the Addr of a second actor (_sec)
    mq2Alive,   \* the MessageQueue of the second actor exists
    pc2,        \* position of the second actor's run loop ("none": no such actor)
    nStopped2   \* number of runs of the second actor's stopped hook

vars == <<policy, holds, weak, mqAlive, rxAlive, queue, chan, nextId, pc, cur,
          stopFlag, minted, handled, sentBy, nStopped,
          cpc, cwait, step, nRestarts, stream,
          count, reply, state, nStarted, secHeld, mq2Alive, pc2, nStopped2>>

\* The state only the run loop task and the tasks it spawns write: client
\* calls leave it alone.
loopVars == <<nRestarts, stream, count, reply, state, nStarted,
              secHeld, mq2Alive, pc2, nStopped2>>

\* The state of the second actor besides the Addr the first instance owns.
secVars == <<mq2Alive, pc2, nStopped2>>

\* The record kept of a try_send, do_send or upgrade call in the state it
\* returns in: the call, the calling client, the value returned.
Step(o, w, r) == [op |-> o, who |-> w, res |-> r]

\* The record in every other state.
Quiet == Step("other", "none", "unit")

NoEnv == [id |-> 0, kind |-> "none", from |-> "none"]

\* A second actor that owns an Addr of the first.
BackRef_strong == "strong"

\* The handle the second actor (Secondary) owns to the first: a WeakAddr.
BackRef == "weak"

\* Arc::strong_count of the MessageQueue: one per live Addr.
strong ==
    Cardinality({c \in Tasks : holds[c]})
      + (IF pc2 \notin {"none", "done"} /\ BackRef = "strong" THEN 1 ELSE 0)

\* Actor::start / Actor::create: the state right after the spawn, with one
\* Addr returned to the caller and the run loop task not yet scheduled.
Spawned ==
    /\ holds = [c \in Tasks |-> c = "c1"]
    /\ weak = [c \in Tasks |-> FALSE]
    /\ mqAlive = TRUE
    /\ rxAlive = TRUE
    /\ queue = <<>>
    /\ chan = [i \in MsgIds |-> "none"]
    /\ nextId = 1
    /\ pc = "starting"
    /\ cur = NoEnv
    /\ stopFlag = FALSE
    /\ minted = FALSE
    /\ handled = <<>>
    /\ sentBy = [c \in Tasks |-> <<>>]
    /\ nStopped = 0
    /\ cpc = [c \in Tasks |-> "idle"]
    /\ cwait = [c \in Tasks |-> 0]
    /\ step = Quiet
    /\ nRestarts = 0
    /\ stream = 0
    /\ count = 0
    /\ reply = [i \in MsgIds |-> 0]
    /\ state = "Starting"
    /\ nStarted = 0

\* No second actor.
NoSecondary ==
    /\ secHeld = FALSE
    /\ mq2Alive = FALSE
    /\ pc2 = "none"
    /\ nStopped2 = 0

Init ==
    /\ policy \in Policies
    /\ Spawned
    /\ NoSecondary

\* An actor that keeps the default hooks (impl Actor for Sh {}).
InitDefault ==
    /\ policy = "Stop"
    /\ Spawned
    /\ NoSecondary

\* create_supervised: the same spawn, with the supervised stopping hook.
InitSupervised ==
    /\ policy = Supervised
    /\ Spawned
    /\ NoSecondary

\* actor_create: Primary::create(f), where the factory takes a.address(),
\* starts Secondary { _prim: this.downgrade() } and keeps its Addr in the
\* Primary instance; the factory's own handle `this` is dropped when it
\* returns.  Both run loop tasks are spawned, the caller owns one Addr.
InitPair ==
    /\ policy = "Stop"
    /\ Spawned
    /\ secHeld = TRUE
    /\ mq2Alive = TRUE
    /\ pc2 = "starting"
    /\ nStopped2 = 0

----------------------------------------------------------------------------
(* Helpers *)

Ids(q) == {q[i].id : i \in 1..Len(q)}

\* Dropping a set of envelopes drops the oneshot::Sender each one carries:
\* a receiver that is still waiting sees the channel broken.
DropSenders(ch, ids) ==
    [i \in MsgIds |->
        IF i \in ids
        THEN (IF ch[i] = "open" THEN "txGone"
              ELSE IF ch[i] = "rxGone" THEN "done" ELSE ch[i])
        ELSE ch[i]]

\* A client task that panics unwinds and drops the handles it owns.
Unwind(f, c) == [f EXCEPT ![c] = FALSE]

----------------------------------------------------------------------------
(* Client side: the handle pair and the delivery calls *)

\* self.tx.send(envelope) returns Err: the receiver half of the mpsc channel
\* has been dropped.
SendFails == ~rxAlive

\* MessageQueue::send: wrap the message and a fresh oneshot sender in an
\* envelope and push it on the mpsc channel.  send keeps the oneshot
\* receiver ("open"); do_send and try_send discard it at once ("rxGone").
MessageQueue_send(c, k, keepRx) ==
    /\ queue' = Append(queue, [id |-> nextId, kind |-> k, from |-> c])
    /\ chan' = [chan EXCEPT ![nextId] = IF keepRx THEN "open" ELSE "rxGone"]
    /\ sentBy' = [sentBy EXCEPT ![c] = Append(@, nextId)]
    /\ nextId' = nextId + 1

\* Addr::send, up to the await: enqueue and suspend on the receiver; the
\* enqueue panics when the run loop's receiver is gone.
Addr_send(c, k) ==
    /\ cpc[c] = "idle" /\ holds[c] /\ nextId <= MaxMsgs
    /\ step' = Quiet
    /\ UNCHANGED loopVars
    /\ IF ~SendFails
       THEN /\ MessageQueue_send(c, k, TRUE)
            /\ cpc' = [cpc EXCEPT ![c] = "waiting"]
            /\ cwait' = [cwait EXCEPT ![c] = nextId]
            /\ UNCHANGED <<holds, weak>>
       ELSE /\ cpc' = [cpc EXCEPT ![c] = "panicked"]
            /\ holds' = Unwind(holds, c)
            /\ weak' = Unwind(weak, c)
            /\ UNCHANGED <<queue, chan, sentBy, nextId, cwait>>
    /\ UNCHANGED <<policy, mqAlive, rxAlive, pc, cur, stopFlag, minted,
                   handled, nStopped>>

\* Addr::send, the await: resp.await.unwrap() yields the reply, or panics
\* when the envelope's sender was dropped without a reply.
Addr_send_resume(c) ==
    /\ cpc[c] = "waiting"
    /\ chan[cwait[c]] \in {"sent", "txGone"}
    /\ step' = Quiet
    /\ UNCHANGED loopVars
    /\ chan' = [chan EXCEPT ![cwait[c]] = "done"]
    /\ cwait' = [cwait EXCEPT ![c] = 0]
    /\ IF chan[cwait[c]] = "sent"
       THEN /\ cpc' = [cpc EXCEPT ![c] = "idle"]
            /\ UNCHANGED <<holds, weak>>
       ELSE /\ cpc' = [cpc EXCEPT ![c] = "panicked"]
            /\ holds' = Unwind(holds, c)
            /\ weak' = Unwind(weak, c)
    /\ UNCHANGED <<policy, mqAlive, rxAlive, queue, nextId, pc, cur, stopFlag,
                   minted, handled, sentBy, nStopped>>

\* The caller drops the future of a pending send: the oneshot receiver it owns
\* is dropped with it.
Addr_send_cancel(c) ==
    /\ cpc[c] = "waiting"
    /\ step' = Quiet
    /\ UNCHANGED loopVars
    /\ chan' = [chan EXCEPT ![cwait[c]] = IF @ = "open" THEN "rxGone" ELSE "done"]
    /\ cwait' = [cwait EXCEPT ![c] = 0]
    /\ cpc' = [cpc EXCEPT ![c] = "idle"]
    /\ UNCHANGED <<policy, holds, weak, mqAlive, rxAlive, queue, nextId, pc, cur,
                   stopFlag, minted, handled, sentBy, nStopped>>

\* do_send built on the panicking MessageQueue::send: a dead receiver aborts
\* the caller instead of being ignored.
do_send_panics(c, k) ==
    /\ cpc[c] = "idle" /\ holds[c] /\ nextId <= MaxMsgs
    /\ step' = Step("do_send", c, IF SendFails THEN "panic" ELSE "unit")
    /\ UNCHANGED loopVars
    /\ IF ~SendFails
       THEN /\ MessageQueue_send(c, k, FALSE)
            /\ UNCHANGED <<holds, weak, cpc>>
       ELSE /\ cpc' = [cpc EXCEPT ![c] = "panicked"]
            /\ holds' = Unwind(holds, c)
            /\ weak' = Unwind(weak, c)
            /\ UNCHANGED <<queue, chan, sentBy, nextId>>
    /\ UNCHANGED <<policy, mqAlive, rxAlive, pc, cur, stopFlag,
                   minted, handled, nStopped, cwait>>

\* do_send: enqueue and return at once, the reply receiver is discarded;
\* a closed mailbox makes it a no-op.
do_send(c, k) ==
    /\ cpc[c] = "idle" /\ holds[c] /\ nextId <= MaxMsgs
    /\ step' = Step("do_send", c, "unit")
    /\ UNCHANGED loopVars
    /\ IF ~SendFails
       THEN MessageQueue_send(c, k, FALSE)
       ELSE UNCHANGED <<queue, chan, sentBy, nextId>>
    /\ UNCHANGED <<policy, holds, weak, mqAlive, rxAlive, pc, cur, stopFlag,
                   minted, handled, nStopped, cpc, cwait>>

\* try_send without the liveness check: it enqueues and answers Ok whatever
\* the state of the mailbox.
try_send_unchecked(c, k) ==
    /\ cpc[c] = "idle" /\ holds[c] /\ nextId <= MaxMsgs
    /\ step' = Step("try_send", c, "Ok")
    /\ UNCHANGED loopVars
    /\ MessageQueue_send(c, k, FALSE)
    /\ UNCHANGED <<policy, holds, weak, mqAlive, rxAlive, pc, cur, stopFlag,
                   minted, handled, nStopped, cpc, cwait>>

\* try_send: Err(CannotSend) at once on a closed mailbox, otherwise enqueue
\* and Ok(()); the caller is never suspended.
try_send(c, k) ==
    /\ cpc[c] = "idle" /\ holds[c] /\ nextId <= MaxMsgs
    /\ step' = Step("try_send", c, IF SendFails THEN "CannotSend" ELSE "Ok")
    /\ UNCHANGED loopVars
    /\ IF ~SendFails
       THEN MessageQueue_send(c, k, FALSE)
       ELSE UNCHANGED <<queue, chan, sentBy, nextId>>
    /\ UNCHANGED <<policy, holds, weak, mqAlive, rxAlive, pc, cur, stopFlag,
                   minted, handled, nStopped, cpc, cwait>>

\* Addr::clone: client c hands a clone of its handle to client d.
Addr_clone(c, d) ==
    /\ holds[c] /\ ~holds[d] /\ cpc[d] = "idle"
    /\ step' = Quiet
    /\ UNCHANGED loopVars
    /\ holds' = [holds EXCEPT ![d] = TRUE]
    /\ UNCHANGED <<policy, weak, mqAlive, rxAlive, queue, chan, nextId, pc, cur,
                   stopFlag, minted, handled, sentBy, nStopped, cpc, cwait>>

\* Drop of an Addr: one strong reference less.  A client suspended in send
\* keeps its handle borrowed.
Addr_drop(c) ==
    /\ holds[c] /\ cpc[c] = "idle"
    /\ step' = Quiet
    /\ UNCHANGED loopVars
    /\ holds' = [holds EXCEPT ![c] = FALSE]
    /\ UNCHANGED <<policy, weak, mqAlive, rxAlive, queue, chan, nextId, pc, cur,
                   stopFlag, minted, handled, sentBy, nStopped, cpc, cwait>>

\* The Arc frees the MessageQueue once the strong count is zero; its mpsc
\* sender goes with it and the channel is closed for the receiver.
MessageQueue_drop ==
    /\ strong = 0 /\ mqAlive
    /\ step' = Quiet
    /\ UNCHANGED loopVars
    /\ mqAlive' = FALSE
    /\ UNCHANGED <<policy, holds, weak, rxAlive, queue, chan, nextId, pc, cur,
                   stopFlag, minted, handled, sentBy, nStopped, cpc, cwait>>

\* Addr::downgrade
downgrade(c) ==
    /\ c \in WeakHolders
    /\ holds[c] /\ ~weak[c] /\ cpc[c] = "idle"
    /\ step' = Quiet
    /\ UNCHANGED loopVars
    /\ weak' = [weak EXCEPT ![c] = TRUE]
    /\ UNCHANGED <<policy, holds, mqAlive, rxAlive, queue, chan, nextId, pc, cur,
                   stopFlag, minted, handled, sentBy, nStopped, cpc, cwait>>

\* An upgrade that looks at the existence of the queue instead of the strong
\* count: it resurrects a queue whose last Addr is already gone.
CanUpgrade_whileQueueExists == mqAlive

\* Weak::upgrade of the Arc: succeeds iff the strong count is not zero.
CanUpgrade == strong > 0

\* WeakAddr::upgrade
upgrade(c) ==
    /\ weak[c] /\ ~holds[c] /\ cpc[c] = "idle"
    /\ step' = Step("upgrade", c, IF CanUpgrade THEN "Some" ELSE "None")
    /\ UNCHANGED loopVars
    /\ holds' = [holds EXCEPT ![c] = CanUpgrade]
    /\ UNCHANGED <<policy, weak, mqAlive, rxAlive, queue, chan, nextId, pc, cur,
                   stopFlag, minted, handled, sentBy, nStopped, cpc, cwait>>

\* Drop of a WeakAddr.
WeakAddr_drop(c) ==
    /\ weak[c] /\ cpc[c] = "idle"
    /\ step' = Quiet
    /\ UNCHANGED loopVars
    /\ weak' = [weak EXCEPT ![c] = FALSE]
    /\ UNCHANGED <<policy, holds, mqAlive, rxAlive, queue, chan, nextId, pc, cur,
                   stopFlag, minted, handled, sentBy, nStopped, cpc, cwait>>

----------------------------------------------------------------------------
(* The run loop task: actor_runner_loop *)

\* The run loop task ends (return or panic): act, ctx and msg_rx are dropped,
\* with act the handles it owns and with msg_rx every envelope still queued.
LoopTeardown(ch, q) ==
    /\ secHeld' = FALSE
    /\ rxAlive' = FALSE
    /\ queue' = <<>>
    /\ chan' = DropSenders(ch, Ids(q))
    /\ cur' = NoEnv

\* A loop that goes to its recv without calling the started hook.
started_no_hook ==
    /\ pc = "starting"
    /\ step' = Quiet
    /\ UNCHANGED <<nRestarts, stream, count, reply, nStarted, secHeld, secVars>>
    /\ state' = "Running"
    /\ pc' = "recv"
    /\ UNCHANGED <<policy, holds, weak, mqAlive, rxAlive, queue, chan, nextId, cur,
                   stopFlag, minted, handled, sentBy, nStopped, cpc, cwait>>

\* act.started(&mut ctx).await; ctx.state() is Starting until it returns.
started ==
    /\ pc = "starting"
    /\ step' = Quiet
    /\ UNCHANGED <<nRestarts, stream, count, reply, secHeld, secVars>>
    /\ nStarted' = nStarted + 1
    /\ state' = "Running"
    /\ pc' = "recv"
    /\ UNCHANGED <<policy, holds, weak, mqAlive, rxAlive, queue, chan, nextId, cur,
                   stopFlag, minted, handled, sentBy, nStopped, cpc, cwait>>

\* A receive that hands out the newest envelope.
NextEnvelope_newest(q) == q[Len(q)]

\* msg_rx.recv() yields Some(msg): the oldest queued envelope.
NextEnvelope(q) == Head(q)

\* A dispatcher that starts the handler of the next envelope without waiting
\* for the callback in progress.
recv_some_concurrent ==
    /\ pc \in {"starting", "recv", "handle", "stopping"} /\ queue # <<>>
    /\ step' = Quiet
    /\ cur' = NextEnvelope(queue)
    /\ queue' = Tail(queue)
    /\ pc' = IF pc = "recv" THEN "handle" ELSE pc
    /\ UNCHANGED <<policy, holds, weak, mqAlive, rxAlive, chan, nextId,
                   stopFlag, minted, handled, sentBy, nStopped, cpc, cwait>>
    /\ UNCHANGED loopVars

recv_some ==
    /\ pc = "recv" /\ queue # <<>>
    /\ step' = Quiet
    /\ UNCHANGED loopVars
    /\ cur' = NextEnvelope(queue)
    /\ queue' = Tail(queue)
    /\ pc' = "handle"
    /\ UNCHANGED <<policy, holds, weak, mqAlive, rxAlive, chan, nextId,
                   stopFlag, minted, handled, sentBy, nStopped, cpc, cwait>>

\* A receive that reports closure as soon as the queue is empty.
ChannelClosed_onEmpty == queue = <<>>

\* msg_rx.recv() yields None: every sender is gone and the queue is drained.
ChannelClosed == ~mqAlive /\ queue = <<>>

\* Where the loop goes when recv reports closure: the Stopping state.
OnClosed == "stopping"

recv_none ==
    /\ pc = "recv" /\ ChannelClosed
    /\ step' = Quiet
    /\ UNCHANGED <<nRestarts, stream, count, reply, nStarted, secHeld, secVars>>
    /\ state' = "Stopping"
    /\ pc' = OnClosed
    /\ UNCHANGED <<policy, holds, weak, mqAlive, rxAlive, queue, chan, nextId, cur,
                   stopFlag, minted, handled, sentBy, nStopped, cpc, cwait>>

\* The message handlers of the actor: the handler of "stop" calls ctx.stop(),
\* which raises the stop-request flag of the context.
HandlerStops(k) == k = "stop"

\* Where the loop goes after a handled message: Stopping when ctx.stop() was
\* called, else the next recv.
AfterHandle(flag) == IF flag THEN "stopping" ELSE "recv"

\* tx.send(ret) of the envelope: fails iff the oneshot receiver was dropped.
ReplyFails(ch, i) == ch[i] = "rxGone"

\* An address() that hands out a handle whatever the strong count is.
AddressPanics_never == FALSE

\* ActorContext::address: self.address.upgrade().unwrap()
AddressPanics == ~CanUpgrade

\* The handler of "adopt" calls ctx.add_stream(msg.stream).
HandlerAdopts(k) == k = "adopt"

\* The u32 a message of the counter actor carries.
Payload(k) == IF k = "u32:2" THEN 2 ELSE 7

\* A handler that echoes the message it was given.
Response_echo(k, cnt) ==
    IF k \in U32Kinds THEN Payload(k) ELSE IF k = "count" THEN cnt ELSE 0

\* The value a handler returns, given the actor state it finds:
\* Handler<u32> returns msg + 1 (the values sent are far from the u32 wrap),
\* Handler<GetRequestCount> returns request_count, the others return ().
Response(k, cnt) ==
    IF k \in U32Kinds THEN Payload(k) + 1
    ELSE IF k = "count" THEN cnt ELSE 0

\* The actor state a handler leaves: Handler<u32> does request_count += 1.
CountAfter(k, cnt) == IF k \in U32Kinds THEN cnt + 1 ELSE cnt

\* msg.handle(&mut act, &mut ctx).await: run the handler, then send the
\* result on the envelope's oneshot sender; a failed send panics, which ends
\* the run loop task.  A handler that calls add_stream takes a strong handle
\* with self.address.upgrade().unwrap() and spawns the forwarding task with
\* it; that unwrap panics inside the handler when no strong handle is left.
Envelope_handle ==
    /\ pc = "handle"
    /\ step' = Quiet
    /\ handled' = Append(handled, cur)
    /\ IF HandlerAdopts(cur.kind) /\ AddressPanics
       THEN /\ pc' = "panic_address"
            /\ LoopTeardown(DropSenders(chan, {cur.id}), queue)
            /\ UNCHANGED <<stopFlag, holds, stream, count, reply, state>>
       ELSE /\ stopFlag' = (stopFlag \/ HandlerStops(cur.kind))
            /\ holds' = IF HandlerAdopts(cur.kind)
                        THEN [holds EXCEPT ![Forwarder] = TRUE] ELSE holds
            /\ stream' = IF HandlerAdopts(cur.kind) THEN StreamLen ELSE stream
            /\ count' = CountAfter(cur.kind, count)
            /\ IF ReplyFails(chan, cur.id)
               THEN /\ pc' = "panic_reply"
                    /\ LoopTeardown([chan EXCEPT ![cur.id] = "done"], queue)
                    /\ UNCHANGED <<reply, state>>
               ELSE /\ pc' = AfterHandle(stopFlag')
                    /\ state' = IF stopFlag' THEN "Stopping" ELSE state
                    /\ chan' = [chan EXCEPT ![cur.id] = "sent"]
                    /\ reply' = [reply EXCEPT ![cur.id] = Response(cur.kind, count)]
                    /\ cur' = NoEnv
                    /\ UNCHANGED <<rxAlive, queue, secHeld>>
    /\ UNCHANGED <<policy, weak, mqAlive, nextId, minted, sentBy,
                   nStopped, cpc, cwait, nRestarts, nStarted, secVars>>

\* A loop that leaves the state at Stopping when the verdict is Continue.
ResumedState_stale == "Stopping"

\* The lifecycle state after a verdict Continue.
ResumedState == "Running"

\* The stopping hook and its verdict; ctx.state() is Stopping while it runs,
\* Stopped after a verdict Stop.
stopping ==
    /\ pc = "stopping"
    /\ step' = Quiet
    /\ CASE policy = "Stop" ->
              /\ pc' = "stopped"
              /\ state' = "Stopped"
              /\ UNCHANGED <<holds, rxAlive, queue, chan, cur, secHeld, stopFlag, minted>>
         [] policy = "Continue" ->
              /\ pc' = "recv"
              /\ state' = ResumedState
              /\ stopFlag' = FALSE
              /\ UNCHANGED <<holds, rxAlive, queue, chan, cur, secHeld, minted>>
         [] policy = Supervised ->
              /\ nRestarts < MaxRestarts
              /\ nRestarts' = nRestarts + 1
              /\ pc' = "recv"
              /\ state' = ResumedState
              /\ stopFlag' = FALSE
              /\ UNCHANGED <<holds, rxAlive, queue, chan, cur, secHeld, minted>>
         [] policy = "Mint" /\ minted ->
              /\ pc' = "stopped"
              /\ state' = "Stopped"
              /\ UNCHANGED <<holds, rxAlive, queue, chan, cur, secHeld, stopFlag, minted>>
         [] policy = "Mint" /\ ~minted /\ AddressPanics ->
              /\ pc' = "panic_address"
              /\ UNCHANGED state
              /\ LoopTeardown(chan, queue)
              /\ UNCHANGED <<holds, stopFlag, minted>>
         [] policy = "Mint" /\ ~minted /\ ~AddressPanics ->
              /\ pc' = "recv"
              /\ state' = ResumedState
              /\ stopFlag' = FALSE
              /\ minted' = TRUE
              /\ \/ \E c \in Clients :
                        /\ ~holds[c] /\ cpc[c] = "idle"
                        /\ holds' = [holds EXCEPT ![c] = TRUE]
                 \/ UNCHANGED holds
              /\ UNCHANGED <<rxAlive, queue, chan, cur, secHeld>>
    /\ policy # Supervised => UNCHANGED nRestarts
    /\ UNCHANGED <<stream, count, reply, nStarted, secVars>>
    /\ UNCHANGED <<policy, weak, mqAlive, nextId, handled, sentBy, nStopped,
                   cpc, cwait>>

\* A loop exit that returns without calling the stopped hook.
stopped_no_hook ==
    /\ pc = "stopped"
    /\ step' = Quiet
    /\ UNCHANGED <<nRestarts, stream, count, reply, state, nStarted, secVars>>
    /\ pc' = "done"
    /\ LoopTeardown(chan, queue)
    /\ UNCHANGED <<policy, holds, weak, mqAlive, nextId, stopFlag, minted,
                   handled, sentBy, nStopped, cpc, cwait>>

\* act.stopped(&mut ctx).await, then the task returns.
stopped ==
    /\ pc = "stopped"
    /\ step' = Quiet
    /\ UNCHANGED <<nRestarts, stream, count, reply, state, nStarted, secVars>>
    /\ nStopped' = nStopped + 1
    /\ pc' = "done"
    /\ LoopTeardown(chan, queue)
    /\ UNCHANGED <<policy, holds, weak, mqAlive, nextId, stopFlag, minted,
                   handled, sentBy, cpc, cwait>>

----------------------------------------------------------------------------
(* The forwarding task of add_stream *)

\* while let Some(msg) = s.next().await { let _ = addr.send(msg).await; }
\* One turn up to the await inside send: pull the next item and enqueue it;
\* the enqueue panics when the run loop's receiver is gone.
forward_item ==
    /\ holds[Forwarder] /\ cpc[Forwarder] = "idle" /\ stream > 0
    /\ step' = Quiet
    /\ stream' = stream - 1
    /\ IF ~SendFails
       THEN /\ MessageQueue_send(Forwarder, "item", TRUE)
            /\ cpc' = [cpc EXCEPT ![Forwarder] = "waiting"]
            /\ cwait' = [cwait EXCEPT ![Forwarder] = nextId]
            /\ UNCHANGED <<holds, weak>>
       ELSE /\ cpc' = [cpc EXCEPT ![Forwarder] = "panicked"]
            /\ holds' = Unwind(holds, Forwarder)
            /\ weak' = Unwind(weak, Forwarder)
            /\ UNCHANGED <<queue, chan, sentBy, nextId, cwait>>
    /\ UNCHANGED <<policy, mqAlive, rxAlive, pc, cur, stopFlag, minted,
                   handled, nStopped, nRestarts, count, reply, state, nStarted,
                   secHeld, secVars>>

\* The await of the forwarding task's send: Addr_send_resume(Forwarder).
forward_resume == Addr_send_resume(Forwarder)

\* A forwarding task that gives up its handle while items are left.
forward_end_early ==
    /\ holds[Forwarder] /\ cpc[Forwarder] = "idle"
    /\ step' = Quiet
    /\ holds' = [holds EXCEPT ![Forwarder] = FALSE]
    /\ UNCHANGED <<policy, weak, mqAlive, rxAlive, queue, chan, nextId, pc, cur,
                   stopFlag, minted, handled, sentBy, nStopped, cpc, cwait,
                   nRestarts, stream, count, reply, state, nStarted,
                   secHeld, secVars>>

\* s.next() yields None: the loop ends, the task returns and drops addr.
forward_end ==
    /\ holds[Forwarder] /\ cpc[Forwarder] = "idle" /\ stream = 0
    /\ step' = Quiet
    /\ holds' = [holds EXCEPT ![Forwarder] = FALSE]
    /\ UNCHANGED <<policy, weak, mqAlive, rxAlive, queue, chan, nextId, pc, cur,
                   stopFlag, minted, handled, sentBy, nStopped, cpc, cwait,
                   nRestarts, stream, count, reply, state, nStarted,
                   secHeld, secVars>>

----------------------------------------------------------------------------
(* A second actor (actor_create: Secondary), whose only Addr the first actor *)
(* instance owns; nothing is sent to it.                                   *)

\* Everything but the second actor's own state.
mainVars == <<policy, holds, weak, mqAlive, rxAlive, queue, chan, nextId, pc, cur,
              stopFlag, minted, handled, sentBy, nStopped, cpc, cwait,
              nRestarts, stream, count, reply, state, nStarted, secHeld>>

\* The Arc of the second actor's MessageQueue frees it once its one Addr,
\* owned by the first instance, is dropped.
sec_MessageQueue_drop ==
    /\ ~secHeld /\ mq2Alive
    /\ step' = Quiet
    /\ mq2Alive' = FALSE
    /\ UNCHANGED <<mainVars, pc2, nStopped2>>

\* actor_runner_loop of the second actor: act.started(&mut ctx).await
sec_started ==
    /\ pc2 = "starting"
    /\ step' = Quiet
    /\ pc2' = "recv"
    /\ UNCHANGED <<mainVars, mq2Alive, nStopped2>>

\* msg_rx.recv() yields None; the loop enters Stopping.
sec_recv_none ==
    /\ pc2 = "recv" /\ ~mq2Alive
    /\ step' = Quiet
    /\ pc2' = OnClosed
    /\ UNCHANGED <<mainVars, mq2Alive, nStopped2>>

\* The default stopping hook: verdict Stop.
sec_stopping ==
    /\ pc2 = "stopping"
    /\ step' = Quiet
    /\ pc2' = "stopped"
    /\ UNCHANGED <<mainVars, mq2Alive, nStopped2>>

\* act.stopped(&mut ctx).await, then the task returns and drops the instance
\* with its WeakAddr of the first actor.
sec_stopped ==
    /\ pc2 = "stopped"
    /\ step' = Quiet
    /\ nStopped2' = nStopped2 + 1
    /\ pc2' = "done"
    /\ UNCHANGED <<mainVars, mq2Alive>>

SecNext ==
    sec_MessageQueue_drop \/ sec_started \/ sec_recv_none \/ sec_stopping \/ sec_stopped

----------------------------------------------------------------------------

Next ==
    \/ \E c \in Clients, k \in Kinds : Addr_send(c, k)
    \/ \E c \in Clients : Addr_send_resume(c)
    \/ \E c \in Clients : Addr_send_cancel(c)
    \/ \E c \in Clients, k \in Kinds : do_send(c, k)
    \/ \E c \in Clients, k \in Kinds : try_send(c, k)
    \/ \E c, d \in Clients : Addr_clone(c, d)
    \/ \E c \in Clients : Addr_drop(c)
    \/ MessageQueue_drop
    \/ \E c \in Clients : downgrade(c)
    \/ \E c \in Clients : upgrade(c)
    \/ \E c \in Clients : WeakAddr_drop(c)
    \/ started
    \/ recv_some
    \/ recv_none
    \/ Envelope_handle
    \/ stopping
    \/ stopped

Spec == Init /\ [][Next]_vars

\* The calls src/src/lib.rs defines (send, clone, drop, downgrade, upgrade)
\* against the run loop: no do_send, no try_send.
NextCore ==
    \/ \E c \in Clients, k \in Kinds : Addr_send(c, k)
    \/ \E c \in Clients : Addr_send_resume(c)
    \/ \E c \in Clients : Addr_send_cancel(c)
    \/ \E c, d \in Clients : Addr_clone(c, d)
    \/ \E c \in Clients : Addr_drop(c)
    \/ MessageQueue_drop
    \/ \E c \in Clients : downgrade(c)
    \/ \E c \in Clients : upgrade(c)
    \/ \E c \in Clients : WeakAddr_drop(c)
    \/ started
    \/ recv_some
    \/ recv_none
    \/ Envelope_handle
    \/ stopping
    \/ stopped

SpecCore == Init /\ [][NextCore]_vars

\* The calls of tests.rs supervised_lifecycle (send, clone, drop) against the
\* run loop of a supervised actor.  The supervised hook has no verdict Stop,
\* so the loop never gets to the stopped hook and that step is left out.
NextSupervised ==
    \/ \E c \in Clients, k \in Kinds : Addr_send(c, k)
    \/ \E c \in Clients : Addr_send_resume(c)
    \/ \E c \in Clients : Addr_send_cancel(c)
    \/ \E c, d \in Clients : Addr_clone(c, d)
    \/ \E c \in Clients : Addr_drop(c)
    \/ MessageQueue_drop
    \/ started
    \/ recv_some
    \/ recv_none
    \/ Envelope_handle
    \/ stopping

SpecSupervised == InitSupervised /\ [][NextSupervised]_vars

\* One stream is followed: the message that carries it is sent once.
CanAdopt ==
    /\ cur.kind # "adopt"
    /\ \A j \in 1..Len(queue) : queue[j].kind # "adopt"
    /\ \A j \in 1..Len(handled) : handled[j].kind # "adopt"

\* tests.rs handling_streams: clients send a stream to adopt and plain
\* messages and await each reply, clone and drop handles; the forwarding
\* task runs beside them.
NextStream ==
    \/ \E c \in Clients : CanAdopt /\ Addr_send(c, "adopt")
    \/ \E c \in Clients : Addr_send(c, "probe")
    \/ \E c \in Clients : Addr_send_resume(c)
    \/ \E c, d \in Clients : Addr_clone(c, d)
    \/ \E c \in Clients : Addr_drop(c)
    \/ MessageQueue_drop
    \/ started
    \/ recv_some
    \/ recv_none
    \/ Envelope_handle
    \/ stopping
    \/ stopped
    \/ forward_item
    \/ forward_resume
    \/ forward_end

SpecStream == InitDefault /\ [][NextStream]_vars

\* The forwarding task is a spawned task like the run loop.
ForwardNext == forward_item \/ forward_resume \/ forward_end

\* The same, with a handler that calls ctx.stop() among the messages.
NextStreamStop ==
    \/ NextStream
    \/ \E c \in Clients : Addr_send(c, "stop")

SpecStreamStop == InitDefault /\ [][NextStreamStop]_vars

\* data_sanity: sends to the counter actor, each awaited, on a handle and
\* its clones; nothing is dropped, so the actor keeps running.
NextCounter ==
    \/ \E c \in Clients, k \in CounterKinds : Addr_send(c, k)
    \/ \E c \in Clients : Addr_send_resume(c)
    \/ \E c, d \in Clients : Addr_clone(c, d)
    \/ started
    \/ recv_some
    \/ Envelope_handle

SpecCounter == InitDefault /\ [][NextCounter]_vars

\* actor_create: the caller's handle to the first actor is cloned, used and
\* dropped while both run loops run.
NextPair ==
    \/ \E c \in Clients : Addr_send(c, "probe")
    \/ \E c \in Clients : Addr_send_resume(c)
    \/ \E c, d \in Clients : Addr_clone(c, d)
    \/ \E c \in Clients : Addr_drop(c)
    \/ MessageQueue_drop
    \/ started
    \/ recv_some
    \/ recv_none
    \/ Envelope_handle
    \/ stopping
    \/ stopped
    \/ sec_MessageQueue_drop
    \/ sec_started
    \/ sec_recv_none
    \/ sec_stopping
    \/ sec_stopped

SpecPair == InitPair /\ [][NextPair]_vars

\* Every way an envelope gets into the mailbox, side by side: send, do_send
\* and try_send by the clients and the forwarding task of an adopted stream,
\* with the handle pair (clone, drop, downgrade, upgrade), dropped send
\* futures and every stopping hook.
NextAllSenders ==
    \/ \E c \in Clients : CanAdopt /\ Addr_send(c, "adopt")
    \/ \E c \in Clients : Addr_send(c, "probe")
    \/ \E c \in Clients : Addr_send_resume(c)
    \/ \E c \in Clients : Addr_send_cancel(c)
    \/ \E c \in Clients : do_send(c, "probe")
    \/ \E c \in Clients : try_send(c, "probe")
    \/ \E c, d \in Clients : Addr_clone(c, d)
    \/ \E c \in Clients : Addr_drop(c)
    \/ MessageQueue_drop
    \/ \E c \in Clients : downgrade(c)
    \/ \E c \in Clients : upgrade(c)
    \/ \E c \in Clients : WeakAddr_drop(c)
    \/ started
    \/ recv_some
    \/ recv_none
    \/ Envelope_handle
    \/ stopping
    \/ stopped
    \/ forward_item
    \/ forward_resume
    \/ forward_end

SpecAllSenders == Init /\ [][NextAllSenders]_vars

\* The runtime schedules the spawned run loop task and finishes a drop it
\* has begun; client tasks are under no obligation to act.
LoopNext == started \/ recv_some \/ recv_none \/ Envelope_handle \/ stopping \/ stopped

FairSpec == Spec /\ WF_vars(LoopNext) /\ WF_vars(MessageQueue_drop)

FairPair ==
    /\ SpecPair
    /\ WF_vars(LoopNext) /\ WF_vars(MessageQueue_drop) /\ WF_vars(SecNext)

FairStream ==
    /\ SpecStream
    /\ WF_vars(LoopNext) /\ WF_vars(MessageQueue_drop) /\ WF_vars(ForwardNext)

----------------------------------------------------------------------------
(* Properties *)

TypeOK ==
    /\ policy \in Policies \cup {Supervised}
    /\ nRestarts \in 0..MaxRestarts
    /\ stream \in 0..StreamLen
    /\ count \in 0..MaxMsgs
    /\ state \in {"Starting", "Running", "Stopping", "Stopped"}
    /\ nStarted \in 0..1
    /\ secHeld \in BOOLEAN /\ mq2Alive \in BOOLEAN
    /\ pc2 \in {"none", "starting", "recv", "stopping", "stopped", "done"}
    /\ nStopped2 \in 0..1
    /\ reply \in [MsgIds -> Nat]
    /\ holds \in [Tasks -> BOOLEAN]
    /\ weak \in [Tasks -> BOOLEAN]
    /\ mqAlive \in BOOLEAN /\ rxAlive \in BOOLEAN
    /\ chan \in [MsgIds -> {"none", "open", "rxGone", "sent", "txGone", "done"}]
    /\ nextId \in 1..(MaxMsgs + StreamLen + 1)
    /\ pc \in {"starting", "recv", "handle", "stopping", "stopped", "done",
              "panic_reply", "panic_address"}
    /\ stopFlag \in BOOLEAN /\ minted \in BOOLEAN
    /\ nStopped \in Nat
    /\ cpc \in [Tasks -> {"idle", "waiting", "panicked"}]
    /\ cwait \in [Tasks -> 0..(MaxMsgs + StreamLen)]

\* C1: a send on a handle whose actor has terminated, or whose actor is torn
\* down before it replies, resolves to CannotSend: no send ever panics.
\* Stated for the actor that reached Stopped through its stopped hook.
C1_SendNeverPanics ==
    pc = "done" => \A c \in Clients : cpc[c] # "panicked"

\* C2: try_send on a closed mailbox returns Err(CannotSend) at once and
\* enqueues nothing; on an open mailbox it appends the caller's envelope and
\* returns Ok(()); in both cases the caller is not suspended.
C2_TrySendImmediate ==
    [][\A c \in Clients :
          (step'.op = "try_send" /\ step'.who = c) =>
             /\ cpc'[c] = "idle" /\ cwait' = cwait
             /\ IF rxAlive
                THEN /\ step'.res = "Ok"
                     /\ Len(queue') = Len(queue) + 1
                     /\ SubSeq(queue', 1, Len(queue)) = queue
                     /\ queue'[Len(queue')].from = c
                     /\ queue'[Len(queue')].id = nextId
                ELSE /\ step'.res = "CannotSend"
                     /\ queue' = queue /\ chan' = chan /\ nextId' = nextId
      ]_vars

\* C2 witness: try_send has just answered CannotSend on an actor that reached
\* Stopped.
C2_Witness ==
    step.op = "try_send" /\ step.res = "CannotSend" /\ pc = "done" /\ ~rxAlive

\* C3: do_send on a closed mailbox is a silent no-op: it returns unit, the
\* caller neither panics nor suspends, nothing is enqueued, and no handler
\* runs once the mailbox is closed.
C3_DoSendOnClosedIsNoOp ==
    [][/\ (step'.op = "do_send" /\ ~rxAlive) =>
             /\ step'.res = "unit"
             /\ cpc' = cpc /\ cwait' = cwait /\ holds' = holds
             /\ queue' = queue /\ chan' = chan /\ nextId' = nextId
       /\ ~rxAlive => handled' = handled
      ]_vars

\* C3 witness: do_send has just returned on an actor that reached Stopped.
C3_Witness ==
    step.op = "do_send" /\ pc = "done" /\ ~rxAlive /\ queue = <<>>

\* C4: an envelope whose reply receiver is gone is still dispatched, the
\* result is discarded without failure, and the run loop stays alive.
\* Checked under SpecCore, where the only receivers that go away are those
\* of dropped send futures.
C4_DroppedReceiverIsNoOp ==
    [][pc = "handle" => (pc' # "panic_reply" /\ rxAlive')]_vars

\* The actor is idle: its run loop is between messages and nothing is queued.
Idle == pc \in {"starting", "recv"} /\ queue = <<>>

\* C5: once the last StrongAddr of an idle actor with the default stopping
\* hook is gone, the stopped hook eventually runs, it runs exactly once, and
\* the instance is destroyed (the run loop task has returned).
C5_LastDropStopsOnce ==
    /\ [](nStopped <= 1)
    /\ (policy = "Stop" /\ strong = 0 /\ Idle)
          ~> (pc = "done" /\ nStopped = 1 /\ ~rxAlive)

\* C5 witness: the stopped hook has just run on an actor nobody asked to stop
\* and to which no strong handle is left.
C5_Witness ==
    /\ pc = "done" /\ policy = "Stop" /\ ~stopFlag
    /\ strong = 0 /\ nStopped = 1 /\ ~rxAlive

C7_UpgradeIffStrongAlive ==
    [][step'.op = "upgrade" =>
          /\ (step'.res = "Some") <=> (strong > 0)
          /\ (step'.res = "Some") => (holds'[step'.who] /\ mqAlive' /\ mqAlive)
          /\ (step'.res = "None") => (holds' = holds /\ strong' = 0)
      ]_vars

\* C7 witness: an upgrade raced with the drop of the last strong handle: the
\* count is zero, the queue is not yet freed, and upgrade answered None.
C7_Witness ==
    step.op = "upgrade" /\ step.res = "None" /\ mqAlive /\ strong = 0

\* The ids of the handled envelopes that client c enqueued, in handling order.
HandledFrom(c) ==
    LET mine(e) == e.from = c
        h == SelectSeq(handled, mine)
    IN [i \in 1..Len(h) |-> h[i].id]

IsPrefix(s, t) == Len(s) <= Len(t) /\ SubSeq(t, 1, Len(s)) = s

\* C8: the envelopes of one handle are handled in the order they were sent,
\* none twice and none skipped (the handled ones are a prefix of the sent
\* ones); a Stopping -> Running cycle leaves the queue as it is.
C8_OrderKeptAcrossStopCycles ==
    /\ [](\A c \in Clients : IsPrefix(HandledFrom(c), sentBy[c]))
    /\ [][(pc = "stopping" /\ pc' = "recv")
             => (queue' = queue /\ handled' = handled /\ rxAlive')]_vars

\* C8 witness: a stopping hook has just answered Continue with two envelopes
\* of one handle waiting in the queue, behind a handled stop message.
C8_Witness ==
    /\ pc = "recv" /\ policy = "Continue" /\ ~stopFlag
    /\ Len(queue) = 2 /\ queue[1].from = queue[2].from
    /\ Len(handled) = 1 /\ handled[1].kind = "stop"

\* C9: with a stopping hook that always answers Continue no enqueued
\* envelope is lost: each one is handled, being handled, or still queued.
\* Stated for the runs in which a stop request has been answered by Continue.
C9_ContinueLosesNothing ==
    (policy = "Continue" /\ ~stopFlag
       /\ \E j \in 1..Len(handled) : handled[j].kind = "stop") =>
        \A i \in 1..(nextId - 1) :
            \/ \E j \in 1..Len(handled) : handled[j].id = i
            \/ \E j \in 1..Len(queue) : queue[j].id = i
            \/ cur.id = i

\* C10: a stopping hook that mints a handle with ctx.address() and answers
\* Continue brings the actor back to Running with a strong handle alive.
C10_MintInStoppingRevives ==
    [][(pc = "stopping" /\ pc' # "stopping" /\ policy = "Mint" /\ ~minted
          /\ strong = 0 /\ ~stopFlag)
         => (pc' = "recv" /\ rxAlive' /\ strong' > 0)]_vars

\* The number of handled messages whose handler called ctx.stop().
NumStops == Cardinality({j \in 1..Len(handled) : handled[j].kind = "stop"})

ItemsHandled == Cardinality({j \in 1..Len(handled) : handled[j].kind = "item"})

Adopted == \E j \in 1..Len(handled) : handled[j].kind = "adopt"

\* C12: a stream of StreamLen items handed to add_stream leads to exactly
\* StreamLen handler runs for its items, among the directly sent messages:
\* never more, all of them before the stopped hook and the end of the
\* instance (also when the clients drop their handles right after the
\* adoption), and the forwarding task ends, its handle released, once the
\* stream is exhausted.
C12_StreamDeliversAllItems ==
    /\ [](ItemsHandled <= StreamLen)
    /\ []((pc \in {"stopped", "done"} /\ Adopted)
            => (ItemsHandled = StreamLen /\ stream = 0 /\ ~holds[Forwarder]))
    /\ holds[Forwarder]
          ~> (~holds[Forwarder] /\ stream = 0 /\ ItemsHandled = StreamLen
               /\ cpc[Forwarder] = "idle")

\* C12 witness: the instance is gone after the adoption, the stream items and
\* a directly sent message handled between two of them.
C12_Witness ==
    /\ pc = "done" /\ nStopped = 1 /\ ItemsHandled = StreamLen
    /\ \E i, j, k \in 1..Len(handled) :
          /\ i < j /\ j < k
          /\ handled[i].kind = "item" /\ handled[j].kind = "probe"
          /\ handled[k].kind = "item"

\* C13: a forwarding task that acts after the actor has stopped (its send
\* fails, or its pending send is answered by the teardown) ends without a
\* panic and with its handle released.
C13_ForwarderEndsSilently ==
    [][(holds[Forwarder] /\ ~rxAlive
          /\ (cpc'[Forwarder] # cpc[Forwarder] \/ holds'[Forwarder] # holds[Forwarder]))
         => (cpc'[Forwarder] # "panicked" /\ ~holds'[Forwarder])]_vars

\* The callbacks of the actor instance that are in execution: the started hook
\* from the spawn until it returns, the handler of the envelope the loop has
\* pulled, the stopping hook, the stopped hook.
Executing ==
    {h \in {"started", "handler", "stopping", "stopped"} :
        \/ h = "started" /\ pc = "starting"
        \/ h = "handler" /\ cur # NoEnv
        \/ h = "stopping" /\ pc = "stopping"
        \/ h = "stopped" /\ pc = "stopped"}

\* C14: at most one callback of the instance is in execution at any time,
\* and the handler of an envelope starts only when none is: the loop is at
\* its recv and the handler of the envelope before has returned.
C14_OneCallbackAtATime ==
    /\ [](Cardinality(Executing) <= 1)
    /\ [][(cur' # cur /\ cur' # NoEnv) => (Executing = {} /\ pc = "recv")]_vars

\* C14 witness: a handler is running while envelopes of a client and of the
\* forwarding task wait in the queue and both clients own a handle.
C14_Witness ==
    /\ cur # NoEnv /\ pc = "handle"
    /\ holds["c1"] /\ holds["c2"] /\ holds[Forwarder]
    /\ \E i, j \in 1..Len(queue) :
          queue[i].from = Forwarder /\ queue[j].from \in Clients

\* The number of u32 messages among the first n handled envelopes.
U32Before(n) == Cardinality({j \in 1..n : handled[j].kind \in U32Kinds})

\* C15: on a running counter actor every handled send is answered with the
\* handler's value for the state it found (send(n) gives n + 1, a count query
\* gives the number of u32 messages handled before it), and a reply channel
\* carries at most one reply: it is written once, while the caller waits, and
\* read once.
C15_RepliesMatchHandler ==
    /\ [](\A j \in 1..Len(handled) :
            LET e == handled[j]
            IN  /\ chan[e.id] \in {"sent", "done"}
                /\ e.kind \in U32Kinds => reply[e.id] = Payload(e.kind) + 1
                /\ e.kind = "count" => reply[e.id] = U32Before(j - 1))
    /\ [][\A i \in MsgIds :
            /\ (chan'[i] = "sent" /\ chan[i] # "sent") => chan[i] = "open"
            /\ chan[i] = "sent" => (chan'[i] \in {"sent", "done"} /\ reply'[i] = reply[i])
            /\ chan[i] = "done" => (chan'[i] = "done" /\ reply'[i] = reply[i])
      ]_vars

\* C15 witness: a count query handled after two u32 messages was answered 2.
C15_Witness ==
    /\ Len(handled) = 3 /\ handled[3].kind = "count"
    /\ handled[1].kind = "u32:2" /\ handled[2].kind = "u32:7"
    /\ reply[handled[3].id] = 2 /\ reply[handled[1].id] = 3
    /\ chan[handled[3].id] = "done"

\* C16: the state ctx.state() reports inside a callback is the state of the
\* run loop: Starting in started, Running in every message handler, Stopping
\* in stopping, Stopped in stopped.
C16_StateMatchesCallback ==
    /\ pc = "starting" => state = "Starting"
    /\ pc = "handle" => state = "Running"
    /\ pc = "stopping" => state = "Stopping"
    /\ pc = "stopped" => state = "Stopped"

\* C16 witness: a message handler runs after a stopping hook answered
\* Continue.
C16_Witness ==
    /\ pc = "handle" /\ state = "Running" /\ policy = "Continue" /\ ~stopFlag
    /\ \E j \in 1..Len(handled) : handled[j].kind = "stop"

\* C20: the started hook runs exactly once, and it has returned before the
\* first envelope is pulled, whatever was enqueued before the run loop task
\* began; from Starting the loop goes to Running and nowhere else.
C20_StartedOnceBeforeDispatch ==
    /\ [](nStarted <= 1)
    /\ []((cur # NoEnv \/ handled # <<>>) => nStarted = 1)
    /\ []((pc = "starting") <=> (nStarted = 0))
    /\ [][pc = "starting" =>
            (pc' = "starting" \/ (pc' = "recv" /\ state' = "Running" /\ nStarted' = 1))
      ]_vars

\* C20 witness: the first handler runs, after the started hook, on a queue
\* that was filled while the loop was still in Starting.
C20_Witness ==
    /\ pc = "handle" /\ handled = <<>> /\ nStarted = 1
    /\ cur.id = 1 /\ Len(queue) = MaxMsgs - 1

\* No client owns a handle to the first actor.
NoExternalHandle == \A c \in Clients : ~holds[c]

\* C17: the first actor owns the only strong handle to the second, the
\* second only a weak handle to the first.  Once every external strong
\* handle is dropped both actors reach Stopped, each stopped hook run once;
\* the second outlives neither the first instance nor is it stopped while
\* the first instance still owns its handle.
C17_PairStopsOnLastDrop ==
    /\ [](nStopped <= 1 /\ nStopped2 <= 1)
    /\ [](pc2 \in {"stopping", "stopped", "done"} => ~secHeld)
    /\ NoExternalHandle
          ~> (pc = "done" /\ pc2 = "done" /\ nStopped = 1 /\ nStopped2 = 1)

\* C17 witness: both run loops have returned through their stopped hooks
\* after the clients dropped their handles.
C17_Witness ==
    /\ NoExternalHandle /\ pc = "done" /\ pc2 = "done"
    /\ nStopped = 1 /\ nStopped2 = 1 /\ ~mqAlive /\ ~mq2Alive

\* The ids of the envelopes whose handler was invoked.
Dispatched == {handled[j].id : j \in 1..Len(handled)}

\* C18: an enqueued envelope is dispatched unless a verdict Stop ends the
\* actor first: at any time it is dispatched, being handled or still queued,
\* or the loop is in Stopped; closure is reported only on a drained queue;
\* and a send is answered only after every envelope its handle enqueued
\* before it (by send or do_send) was dispatched.
C18_EnqueuedIsDispatched ==
    /\ \A c \in Clients : \A n \in 1..Len(sentBy[c]) :
          LET i == sentBy[c][n]
          IN  \/ i \in Dispatched
              \/ i \in Ids(queue)
              \/ cur.id = i
              \/ pc \in {"stopped", "done"}
    /\ (pc = "stopping" /\ ~stopFlag) => queue = <<>>
    /\ \A c \in Clients : \A n \in 1..Len(sentBy[c]) :
          chan[sentBy[c][n]] = "sent" =>
              \A k \in 1..n : sentBy[c][k] \in Dispatched

\* C19: once the loop is in Stopped no handler is invoked; a caller that
\* still waits on a send when the loop has ended finds its reply channel
\* resolved, and leaves the wait with a value (a reply or CannotSend), not
\* with a panic.
C19_StoppedAnswersWaiters ==
    /\ [][(pc \in {"stopped", "done"}) => (handled' = handled)]_vars
    /\ [](\A c \in Clients :
            (pc = "done" /\ cpc[c] = "waiting") => chan[cwait[c]] \in {"sent", "txGone"})
    /\ [][\A c \in Clients :
            (pc = "done" /\ cpc[c] = "waiting" /\ cpc'[c] # "waiting")
               => cpc'[c] = "idle"]_vars

\* C21: the handler of a message that calls ctx.stop() runs to completion
\* and its reply is handed to the caller that waits for it; the loop goes
\* from that handler to Stopping, and no handler starts while a stop request
\* is pending; with the verdict Stop no envelope is handled after the message
\* that asked to stop.
C21_StopFinishesHandlerThenStops ==
    /\ [][(pc = "handle" /\ pc' # "handle" /\ HandlerStops(cur.kind)) =>
            /\ handled' = Append(handled, cur)
            /\ chan[cur.id] = "open" => chan'[cur.id] = "sent"
            /\ pc' = "stopping" /\ stopFlag'
      ]_vars
    /\ [][handled' # handled => ~stopFlag]_vars
    /\ [](policy = "Stop" =>
            \A j \in 1..Len(handled) :
                HandlerStops(handled[j].kind) => j = Len(handled))

\* The state in which msg_rx.recv() answers None: the MessageQueue and its
\* mpsc sender are freed and the channel is drained.
Closed == ~mqAlive /\ queue = <<>>

C23_OwnAddressAlwaysUpgrades ==
    [][/\ (pc = "handle" /\ pc' # "handle" /\ HandlerAdopts(cur.kind))
            => (pc' # "panic_address" /\ holds'[Forwarder])
       /\ (pc = "stopping" /\ pc' # "stopping" /\ policy = "Mint" /\ ~minted)
            => (pc' = "recv" /\ minted')
      ]_vars

\* C24: a ctx.stop() request leads to one run of the stopping hook: the loop
\* goes to Stopping from the handler that raised the request, a verdict
\* Continue clears the request, and the loop enters Stopping in no other way
\* than from a handler that called ctx.stop() or on closure with no strong
\* handle left; handlers of other messages go back to recv.
C24_OneStoppingPerStopRequest ==
    /\ [][(stopFlag' /\ ~stopFlag) => pc' = "stopping"]_vars
    /\ [][(pc = "stopping" /\ pc' = "recv") => ~stopFlag']_vars
    /\ [][(pc # "stopping" /\ pc' = "stopping") =>
            \/ pc = "handle" /\ HandlerStops(cur.kind)
            \/ pc = "recv" /\ strong = 0 /\ ~mqAlive /\ queue = <<>>
      ]_vars
    /\ [](pc \in {"recv", "handle"} => ~stopFlag)

====
